---- MODULE Spec2Model ----
(***************************************************************************)
(* Model of easypj/core/executor.py: the Task registry of an Executor, the *)
(* four task builders, and Executor.run with its submission loop           *)
(* (__submit_jobs), the blocking wait4all and the status update.           *)
(*                                                                         *)
(* Python values are modelled as follows.  Strings are TLA+ strings and    *)
(* '+' on strings is \o.  Python's None is the string None below.  A dict  *)
(* is a function whose DOMAIN is the set of its keys.  A key of the _tasks *)
(* dict is either a TaskType member or a str; the two never compare equal  *)
(* in Python, so a key is a record [kind, v] that keeps them apart.        *)
(***************************************************************************)
EXTENDS Naturals, Sequences, FiniteSets, TLC

VARIABLES
    qcgpjm,         \* Executor._qcgpjm: None or the scheduler handle
    tasks,          \* Executor._tasks: dict of registered Task objects
    qcgpj_tempdir,  \* Executor._qcgpj_tempdir
    scheduler,      \* the scheduler service behind the handle: none, running or stopped
    manager_args,   \* arguments create_manager gave LocalManager(args, client_conf)
    log_level,      \* the log_level argument of the last create_manager call
    pc,             \* position of the caller inside Executor.run
    submit_order,   \* argument of the run call in progress
    campaign,       \* the campaign's run table: sequence of [key, run_dir, status]
    loop,           \* position inside __submit_jobs: [i |-> run index, j |-> pass/statement]
    submitted,      \* descriptors handed to _qcgpjm.submit by this run call, in order
    failed,         \* names of the submitted tasks the scheduler reports as failed
    waits,          \* number of wait4all calls made by this run call
    status0,        \* status of every run when run was called
    err             \* exception that left run, or NoError

vars == <<qcgpjm, tasks, qcgpj_tempdir, scheduler, manager_args, log_level,
          pc, submit_order, campaign, loop, submitted, failed, waits, status0, err>>

----------------------------------------------------------------------------
(* Bound of the model *)

MaxRuns == 2        \* longest campaign handed to run

(* Input pools *)

KeyPool == <<"Run_0", "execute_Run_0", "Run_1", "Run_2">>
RunKeys == {KeyPool[n] : n \in 1..MaxRuns}
TaskNames == {"<None>", "", "my_task"}
Applications == {"<None>", "app.py"}

----------------------------------------------------------------------------
(* Python values *)

None == "<None>"

NoError == "no error"
\* 'NoneType' object has no attribute ...: self._tasks.get(kind) returned None
MissingTaskSpec == "AttributeError: task is None"
\* 'NoneType' object has no attribute ...: self._qcgpjm is None
NoManager == "AttributeError: _qcgpjm is None"
\* whatever the scheduler client raises
SchedulerError == "SchedulerError"

Manager == "LocalManager"

\* uq.constants.Status
Status_NEW == "NEW"
Status_ENCODED == "ENCODED"
Status == {Status_NEW, Status_ENCODED}

\* class SubmitOrder
PHASE_ORIENTED == "PHASE_ORIENTED"
RUN_ORIENTED == "RUN_ORIENTED"
RUN_ORIENTED_CONDENSED == "RUN_ORIENTED_CONDENSED"
EXEC_ONLY == "EXEC_ONLY"
SubmitOrder == {PHASE_ORIENTED, RUN_ORIENTED, RUN_ORIENTED_CONDENSED, EXEC_ONLY}

\* class TaskType
ENCODING == "ENCODING"
EXECUTION == "EXECUTION"
ENCODING_AND_EXECUTION == "ENCODING_AND_EXECUTION"
TaskType_OTHER == "OTHER"
TaskType == {ENCODING, EXECUTION, ENCODING_AND_EXECUTION, TaskType_OTHER}

\* a dict key that is a TaskType member / a str
TypeKey(t) == [kind |-> "TaskType", v |-> t]
StrKey(s) == [kind |-> "str", v |-> s]

\* dict.get(key): the value, or None when the key is absent
DictGet(d, key) == IF key \in DOMAIN d THEN d[key] ELSE None
\* dict.get(key) is None
IsNone(d, key) == key \notin DOMAIN d

\* the campaign collaborator's fields used as task arguments
db_type == "sql"
db_location == "sqlite:///campaign.db"
campaign_name == "pce"
active_app_name == "pce_app"

\* the run_dir the campaign gives the run of a key
RunDir(key) == "/runs/" \o key

\* TaskRequirements.get_resources(): the dict merged into a descriptor
Requirements == {[numCores |-> 1]}
get_resources(requirements) == requirements

\* the scheduler client serves a call (submit, wait4all, finish) only
\* while its service runs; on a stopped service the call raises
SchedulerServes(s) == s = "running"

----------------------------------------------------------------------------
(* Log levels.  The log_level argument is a sequence of characters, so     *)
(* that str.upper() is modelled by what it does to each of them.           *)

ToUpper ==
    [a |-> "A", b |-> "B", c |-> "C", d |-> "D", e |-> "E", f |-> "F", g |-> "G",
     h |-> "H", i |-> "I", j |-> "J", k |-> "K", l |-> "L", m |-> "M", n |-> "N",
     o |-> "O", p |-> "P", q |-> "Q", r |-> "R", s |-> "S", t |-> "T", u |-> "U",
     v |-> "V", w |-> "W", x |-> "X", y |-> "Y", z |-> "Z"]

\* str.upper()
upper(s) ==
    [n \in DOMAIN s |-> IF s[n] \in DOMAIN ToUpper THEN ToUpper[s[n]] ELSE s[n]]

\* the str made of the characters of s
RECURSIVE Str(_)
Str(s) == IF Len(s) = 0 THEN "" ELSE s[1] \o Str(Tail(s))

\* class ServiceLogLevel, class ClientLogLevel: member name -> value
ServiceLogLevel ==
    [CRITICAL |-> "critical", ERROR |-> "error", WARNING |-> "warning",
     INFO |-> "info", DEBUG |-> "debug"]
ClientLogLevel == [INFO |-> "info", DEBUG |-> "debug"]

\* try: ServiceLogLevel[log_level].value  except KeyError: ServiceLogLevel.DEBUG.value
service_log_level(level) ==
    IF Str(level) \in DOMAIN ServiceLogLevel THEN ServiceLogLevel[Str(level)]
    ELSE ServiceLogLevel.DEBUG

\* the client side falling back to INFO
client_log_level_fallback_info(level) ==
    IF Str(level) \in DOMAIN ClientLogLevel THEN ClientLogLevel[Str(level)]
    ELSE ClientLogLevel.INFO

\* try: ClientLogLevel[log_level].value  except KeyError: ClientLogLevel.DEBUG.value
client_log_level(level) ==
    IF Str(level) \in DOMAIN ClientLogLevel THEN ClientLogLevel[Str(level)]
    ELSE ClientLogLevel.DEBUG

\* mkdtemp(None, ".qcgpj-", dir): a fresh directory under dir
mkdtemp(dir) == dir \o "/.qcgpj-" \o "x7k2"

\* the words whose spellings are given to create_manager
LevelWords ==
    {<<"d","e","b","u","g">>, <<"i","n","f","o">>, <<"e","r","r","o","r">>,
     <<"t","r","a","c","e">>}

\* every spelling of a word in lower and upper case letters
CaseVariants(word) ==
    {s \in [DOMAIN word -> {word[n] : n \in DOMAIN word}
                              \cup {ToUpper[word[n]] : n \in DOMAIN word}] :
        \A n \in DOMAIN word : s[n] \in {word[n], ToUpper[word[n]]}}

LogLevels ==
    UNION {CaseVariants(word) : word \in LevelWords}
      \cup {<<"w","a","r","n","i","n","g">>, <<"W","A","R","N","I","N","G">>,
            <<"W","a","r","n","i","n","g">>,
            <<"c","r","i","t","i","c","a","l">>, <<"C","R","I","T","I","C","A","L">>,
            <<"v","e","r","b","o","s","e">>, <<"D","E","B","U","G","2">>}

\* the default of the log_level parameter
DefaultLogLevel == <<"d","e","b","u","g">>

----------------------------------------------------------------------------
(* class Task *)

\* **params: a dict that has the key "application" or not
Params(application) ==
    IF application = None THEN [p \in {} |-> ""]
    ELSE [p \in {"application"} |-> application]

\* Task.__init__: _name = name if name else type
Task(type, requirements, name, application) ==
    [type |-> type,
     requirements |-> requirements,
     params |-> Params(application),
     name |-> IF name # None /\ name # "" THEN StrKey(name) ELSE TypeKey(type)]

get_name(task) == task.name
get_type(task) == task.type
get_params(task) == task.params
get_requirements(task) == task.requirements

\* the Task objects a caller can build; only the builders of EXECUTION and
\* ENCODING_AND_EXECUTION read params, so the other kinds come without any
ApplicationsOf(type) ==
    IF type \in {EXECUTION, ENCODING_AND_EXECUTION} THEN Applications ELSE {None}

AllTasks ==
    UNION {{Task(t, r, n, a) : r \in Requirements, n \in TaskNames,
                               a \in ApplicationsOf(t)} : t \in TaskType}

----------------------------------------------------------------------------
(* The task builders.  A builder returns [raises, task]: raises is the     *)
(* exception it ends with (NoError when it returns), task the descriptor.  *)

NoTask ==
    [name |-> "", exec |-> "", args |-> <<>>, wd |-> "", stdout |-> "",
     stderr |-> "", resources |-> [numCores |-> 0], after |-> <<>>]

Raise(e) == [raises |-> e, task |-> NoTask]
Return(t) == [raises |-> NoError, task |-> t]

\* _get_encoding_task with a task name that leaves out the run key
_get_encoding_task_no_key(reg, tempdir, run) ==
    IF IsNone(reg, TypeKey(ENCODING)) THEN Raise(MissingTaskSpec)
    ELSE
    LET task == DictGet(reg, TypeKey(ENCODING))
        requirements == get_resources(get_requirements(task))
        key == run.key
    IN Return([name |-> "encode_",
               exec |-> "easyvvuq_encode",
               args |-> <<db_type, db_location, "FALSE", campaign_name,
                          active_app_name, key>>,
               wd |-> tempdir,
               stdout |-> tempdir \o "/encode_" \o key \o ".stdout",
               stderr |-> tempdir \o "/encode_" \o key \o ".stderr",
               resources |-> requirements,
               after |-> <<>>])

\* _get_encoding_task that makes do with the OTHER Task when there is no
\* ENCODING Task
_get_encoding_task_uses_other(reg, tempdir, run) ==
    IF IsNone(reg, TypeKey(ENCODING)) /\ IsNone(reg, TypeKey(TaskType_OTHER))
    THEN Raise(MissingTaskSpec)
    ELSE
    LET task == IF IsNone(reg, TypeKey(ENCODING))
                THEN DictGet(reg, TypeKey(TaskType_OTHER))
                ELSE DictGet(reg, TypeKey(ENCODING))
        requirements == get_resources(get_requirements(task))
        key == run.key
    IN Return([name |-> "encode_" \o key,
               exec |-> "easyvvuq_encode",
               args |-> <<db_type, db_location, "FALSE", campaign_name,
                          active_app_name, key>>,
               wd |-> tempdir,
               stdout |-> tempdir \o "/encode_" \o key \o ".stdout",
               stderr |-> tempdir \o "/encode_" \o key \o ".stderr",
               resources |-> requirements,
               after |-> <<>>])

_get_encoding_task(reg, tempdir, run) ==
    IF IsNone(reg, TypeKey(ENCODING)) THEN Raise(MissingTaskSpec)
    ELSE
    LET task == DictGet(reg, TypeKey(ENCODING))
        requirements == get_resources(get_requirements(task))
        key == run.key
    IN Return([name |-> "encode_" \o key,
               exec |-> "easyvvuq_encode",
               args |-> <<db_type, db_location, "FALSE", campaign_name,
                          active_app_name, key>>,
               wd |-> tempdir,
               stdout |-> tempdir \o "/encode_" \o key \o ".stdout",
               stderr |-> tempdir \o "/encode_" \o key \o ".stderr",
               resources |-> requirements,
               after |-> <<>>])

\* _get_exec_task that waits for the encode task of no particular run
_get_exec_task_wrong_dep(reg, tempdir, run) ==
    IF IsNone(reg, TypeKey(EXECUTION)) THEN Raise(MissingTaskSpec)
    ELSE
    LET task == DictGet(reg, TypeKey(EXECUTION))
        application == DictGet(get_params(task), "application")
        requirements == get_resources(get_requirements(task))
        key == run.key
        run_dir == run.run_dir
    IN Return([name |-> "execute_" \o key,
               exec |-> "easyvvuq_execute",
               args |-> <<run_dir, "easyvvuq_app", application>>,
               wd |-> tempdir,
               stdout |-> tempdir \o "/execute_" \o key \o ".stdout",
               stderr |-> tempdir \o "/execute_" \o key \o ".stderr",
               resources |-> requirements,
               after |-> <<"encode_">>])

\* _get_exec_task that goes on with an empty Task when none is registered
_get_exec_task_no_check(reg, tempdir, run) ==
    LET application == IF IsNone(reg, TypeKey(EXECUTION)) THEN None
                       ELSE DictGet(get_params(DictGet(reg, TypeKey(EXECUTION))),
                                    "application")
        requirements == [numCores |-> 1]
        key == run.key
        run_dir == run.run_dir
    IN Return([name |-> "execute_" \o key,
               exec |-> "easyvvuq_execute",
               args |-> <<run_dir, "easyvvuq_app", application>>,
               wd |-> tempdir,
               stdout |-> tempdir \o "/execute_" \o key \o ".stdout",
               stderr |-> tempdir \o "/execute_" \o key \o ".stderr",
               resources |-> requirements,
               after |-> <<"encode_" \o key>>])

_get_exec_task(reg, tempdir, run) ==
    IF IsNone(reg, TypeKey(EXECUTION)) THEN Raise(MissingTaskSpec)
    ELSE
    LET task == DictGet(reg, TypeKey(EXECUTION))
        application == DictGet(get_params(task), "application")
        requirements == get_resources(get_requirements(task))
        key == run.key
        run_dir == run.run_dir
    IN Return([name |-> "execute_" \o key,
               exec |-> "easyvvuq_execute",
               args |-> <<run_dir, "easyvvuq_app", application>>,
               wd |-> tempdir,
               stdout |-> tempdir \o "/execute_" \o key \o ".stdout",
               stderr |-> tempdir \o "/execute_" \o key \o ".stderr",
               resources |-> requirements,
               after |-> <<"encode_" \o key>>])

\* _get_encoding_and_exec_task that looks up the EXECUTION Task
_get_encoding_and_exec_task_exec_kind(reg, tempdir, run) ==
    IF IsNone(reg, TypeKey(EXECUTION)) THEN Raise(MissingTaskSpec)
    ELSE
    LET task == DictGet(reg, TypeKey(EXECUTION))
        application == DictGet(get_params(task), "application")
        requirements == get_resources(get_requirements(task))
        key == run.key
        run_dir == run.run_dir
    IN Return([name |-> "encode_execute_" \o key,
               exec |-> "easyvvuq_encode_execute",
               args |-> <<db_type, db_location, "FALSE", campaign_name,
                          active_app_name, key,
                          run_dir, "easyvvuq_app", application>>,
               wd |-> tempdir,
               stdout |-> tempdir \o "/encode_execute_" \o key \o ".stdout",
               stderr |-> tempdir \o "/encode_execute_" \o key \o ".stderr",
               resources |-> requirements,
               after |-> <<>>])

_get_encoding_and_exec_task(reg, tempdir, run) ==
    IF IsNone(reg, TypeKey(ENCODING_AND_EXECUTION)) THEN Raise(MissingTaskSpec)
    ELSE
    LET task == DictGet(reg, TypeKey(ENCODING_AND_EXECUTION))
        application == DictGet(get_params(task), "application")
        requirements == get_resources(get_requirements(task))
        key == run.key
        run_dir == run.run_dir
    IN Return([name |-> "encode_execute_" \o key,
               exec |-> "easyvvuq_encode_execute",
               args |-> <<db_type, db_location, "FALSE", campaign_name,
                          active_app_name, key,
                          run_dir, "easyvvuq_app", application>>,
               wd |-> tempdir,
               stdout |-> tempdir \o "/encode_execute_" \o key \o ".stdout",
               stderr |-> tempdir \o "/encode_execute_" \o key \o ".stderr",
               resources |-> requirements,
               after |-> <<>>])

\* _get_exec_only_task that keeps the dependency of _get_exec_task
_get_exec_only_task_with_dep(reg, tempdir, run) ==
    IF IsNone(reg, TypeKey(EXECUTION)) THEN Raise(MissingTaskSpec)
    ELSE
    LET task == DictGet(reg, TypeKey(EXECUTION))
        application == DictGet(get_params(task), "application")
        requirements == get_resources(get_requirements(task))
        key == run.key
        run_dir == run.run_dir
    IN Return([name |-> "execute_" \o key,
               exec |-> "easyvvuq_execute",
               args |-> <<run_dir, "easyvvuq_app", application>>,
               wd |-> tempdir,
               stdout |-> tempdir \o "/execute_" \o key \o ".stdout",
               stderr |-> tempdir \o "/execute_" \o key \o ".stderr",
               resources |-> requirements,
               after |-> <<"encode_" \o key>>])

\* _get_exec_only_task with the launcher marker before the run directory
_get_exec_only_task_args_swapped(reg, tempdir, run) ==
    IF IsNone(reg, TypeKey(EXECUTION)) THEN Raise(MissingTaskSpec)
    ELSE
    LET task == DictGet(reg, TypeKey(EXECUTION))
        application == DictGet(get_params(task), "application")
        requirements == get_resources(get_requirements(task))
        key == run.key
        run_dir == run.run_dir
    IN Return([name |-> "execute_" \o key,
               exec |-> "easyvvuq_execute",
               args |-> <<"easyvvuq_app", run_dir, application>>,
               wd |-> tempdir,
               stdout |-> tempdir \o "/execute_" \o key \o ".stdout",
               stderr |-> tempdir \o "/execute_" \o key \o ".stderr",
               resources |-> requirements,
               after |-> <<>>])

_get_exec_only_task(reg, tempdir, run) ==
    IF IsNone(reg, TypeKey(EXECUTION)) THEN Raise(MissingTaskSpec)
    ELSE
    LET task == DictGet(reg, TypeKey(EXECUTION))
        application == DictGet(get_params(task), "application")
        requirements == get_resources(get_requirements(task))
        key == run.key
        run_dir == run.run_dir
    IN Return([name |-> "execute_" \o key,
               exec |-> "easyvvuq_execute",
               args |-> <<run_dir, "easyvvuq_app", application>>,
               wd |-> tempdir,
               stdout |-> tempdir \o "/execute_" \o key \o ".stdout",
               stderr |-> tempdir \o "/execute_" \o key \o ".stderr",
               resources |-> requirements,
               after |-> <<>>])

----------------------------------------------------------------------------
(* The campaign collaborator *)

RunRecords ==
    {[key |-> k, run_dir |-> RunDir(k), status |-> s] : k \in RunKeys, s \in Status}

\* the place of a key in KeyPool
KeyRank(k) == CHOOSE n \in DOMAIN KeyPool : KeyPool[n] = k

\* run tables of at most MaxRuns runs with pairwise distinct keys, which the
\* campaign yields in the order of KeyPool or in the opposite order
Campaigns ==
    UNION {{c \in [1..n -> RunRecords] :
              \/ \A a, b \in 1..n : a < b => KeyRank(c[a].key) < KeyRank(c[b].key)
              \/ \A a, b \in 1..n : a < b => KeyRank(c[a].key) > KeyRank(c[b].key)}
           : n \in 0..MaxRuns}

\* campaign.list_runs(): the (key, record) pairs in the campaign's order
list_runs(c) == c

\* update_status that stops after the first run
update_status_first_only(c) ==
    [n \in DOMAIN c |->
        IF c[n].status = Status_NEW /\ n = 1
        THEN [c[n] EXCEPT !.status = Status_ENCODED]
        ELSE c[n]]

\* campaign.call_for_each_run(update_status, status=Status.NEW), where
\* update_status sets the status of the run to Status.ENCODED
update_status(c) ==
    [n \in DOMAIN c |->
        IF c[n].status = Status_NEW THEN [c[n] EXCEPT !.status = Status_ENCODED]
        ELSE c[n]]

----------------------------------------------------------------------------
(* Executor.__submit_jobs: the loops over campaign.list_runs().  A position *)
(* is [i, j]: i the index of the run, j the statement of the loop body     *)
(* (RUN_ORIENTED) or the loop (PHASE_ORIENTED) that is about to execute.   *)

FirstLoop == [i |-> 1, j |-> 1]

\* the builder whose descriptor is submitted at position l
SubmitJobsBuilder(order, l, reg, tempdir, run) ==
    CASE order = RUN_ORIENTED_CONDENSED -> _get_encoding_and_exec_task(reg, tempdir, run)
      [] order = RUN_ORIENTED ->
            IF l.j = 1 THEN _get_encoding_task(reg, tempdir, run)
            ELSE _get_exec_task(reg, tempdir, run)
      [] order = PHASE_ORIENTED ->
            IF l.j = 1 THEN _get_encoding_task(reg, tempdir, run)
            ELSE _get_exec_task(reg, tempdir, run)
      [] order = EXEC_ONLY -> _get_exec_only_task(reg, tempdir, run)

\* __submit_jobs with the loop shapes of RUN_ORIENTED and PHASE_ORIENTED exchanged
SubmitJobsNext_swapped(order, l, n) ==
    CASE order = RUN_ORIENTED_CONDENSED -> [i |-> l.i + 1, j |-> 1]
      [] order = PHASE_ORIENTED ->
            IF l.j = 1 THEN [i |-> l.i, j |-> 2] ELSE [i |-> l.i + 1, j |-> 1]
      [] order = RUN_ORIENTED ->
            IF l.j = 1 /\ l.i = n THEN [i |-> 1, j |-> 2] ELSE [i |-> l.i + 1, j |-> l.j]
      [] order = EXEC_ONLY -> [i |-> l.i + 1, j |-> 1]

\* the position after l; i = n + 1 when the loops are over
SubmitJobsNext(order, l, n) ==
    CASE order = RUN_ORIENTED_CONDENSED -> [i |-> l.i + 1, j |-> 1]
      [] order = RUN_ORIENTED ->
            IF l.j = 1 THEN [i |-> l.i, j |-> 2] ELSE [i |-> l.i + 1, j |-> 1]
      [] order = PHASE_ORIENTED ->
            IF l.j = 1 /\ l.i = n THEN [i |-> 1, j |-> 2] ELSE [i |-> l.i + 1, j |-> l.j]
      [] order = EXEC_ONLY -> [i |-> l.i + 1, j |-> 1]

----------------------------------------------------------------------------
(* Initial state: Executor.__init__, no run call in progress *)

NoTasks == [k \in {} |-> NoTask]

\* no LocalManager was created by this Executor
NoArgs == [args |-> <<>>, client_conf |-> [log_file |-> "", log_level |-> ""]]

Init ==
    /\ qcgpjm = None
    /\ tasks = NoTasks
    /\ qcgpj_tempdir = "."
    /\ scheduler = "none"
    /\ manager_args = NoArgs
    /\ log_level = <<>>
    /\ pc = "idle"
    /\ submit_order = None
    /\ campaign = <<>>
    /\ loop = FirstLoop
    /\ submitted = <<>>
    /\ failed = {}
    /\ waits = 0
    /\ status0 = <<>>
    /\ err = NoError

callVars == <<submit_order, campaign, loop, submitted, failed, waits, status0, err>>
lifeVars == <<scheduler, manager_args, log_level>>

----------------------------------------------------------------------------
(* Executor.set_manager *)

set_manager(m) ==
    /\ pc = "idle"
    /\ qcgpjm' = m
    /\ scheduler' = "running"
    /\ UNCHANGED <<tasks, qcgpj_tempdir, manager_args, log_level, pc, callVars>>

(* Executor.create_manager *)

\* str(x) for x in a list
Args(service_level, tempdir, resources, reserve_core) ==
    <<"--log", service_level, "--wd", tempdir>>
      \o (IF resources # None /\ resources # "" THEN <<"--nodes", resources>> ELSE <<>>)
      \o (IF reserve_core THEN <<"--system-core">> ELSE <<>>)

create_manager(dir, resources, reserve_core, level) ==
    /\ pc = "idle"
    /\ qcgpj_tempdir' = mkdtemp(dir)
    /\ log_level' = level
    /\ manager_args' =
          [args |-> Args(service_log_level(upper(level)), qcgpj_tempdir',
                         resources, reserve_core),
           client_conf |-> [log_file |-> qcgpj_tempdir' \o "/api.log",
                            log_level |-> client_log_level(upper(level))]]
    /\ qcgpjm' = Manager
    /\ scheduler' = "running"
    /\ UNCHANGED <<tasks, pc, callVars>>

(* Executor.terminate_manager *)

\* terminate_manager that forgets the handle once the scheduler is gone
terminate_manager_forgets ==
    /\ pc = "idle"
    /\ IF qcgpjm = None
       THEN pc' = "term_raised" /\ err' = NoManager
                /\ UNCHANGED <<qcgpjm, scheduler>>
       ELSE IF SchedulerServes(scheduler)
       THEN pc' = "term_returned" /\ err' = NoError /\ scheduler' = "stopped"
                /\ qcgpjm' = None
       ELSE pc' = "term_raised" /\ err' = SchedulerError
                /\ UNCHANGED <<qcgpjm, scheduler>>
    /\ UNCHANGED <<tasks, qcgpj_tempdir, manager_args, log_level,
                   submit_order, campaign, loop, submitted, failed, waits, status0>>

\* finish(), stopManager(), cleanup() on the handle: without a handle the
\* first of them raises, on a stopped scheduler finish() raises
terminate_manager ==
    /\ pc = "idle"
    /\ IF qcgpjm = None
       THEN pc' = "term_raised" /\ err' = NoManager /\ UNCHANGED scheduler
       ELSE IF SchedulerServes(scheduler)
       THEN pc' = "term_returned" /\ err' = NoError /\ scheduler' = "stopped"
       ELSE pc' = "term_raised" /\ err' = SchedulerError /\ UNCHANGED scheduler
    /\ UNCHANGED <<qcgpjm, tasks, qcgpj_tempdir, manager_args, log_level,
                   submit_order, campaign, loop, submitted, failed, waits, status0>>

\* the caller has seen the result of terminate_manager and goes on
terminate_done ==
    /\ pc \in {"term_returned", "term_raised"}
    /\ pc' = "idle"
    /\ err' = NoError
    /\ UNCHANGED <<qcgpjm, tasks, qcgpj_tempdir, lifeVars,
                   submit_order, campaign, loop, submitted, failed, waits, status0>>

(* Executor.add_task *)

DictSet(d, key, value) ==
    [k \in DOMAIN d \cup {key} |-> IF k = key THEN value ELSE d[k]]

add_task(task) ==
    /\ pc = "idle"
    /\ tasks' = DictSet(tasks, get_name(task), task)
    /\ UNCHANGED <<qcgpjm, qcgpj_tempdir, lifeVars, pc, callVars>>

----------------------------------------------------------------------------
(* Executor.run *)

\* run that goes straight to the status update when there is no run
run_skips_wait(c, order) ==
    /\ pc = "idle"
    /\ submit_order' = order
    /\ campaign' = c
    /\ status0' = [n \in DOMAIN c |-> c[n].status]
    /\ loop' = FirstLoop
    /\ submitted' = <<>>
    /\ failed' = {}
    /\ waits' = 0
    /\ err' = NoError
    /\ pc' = IF Len(list_runs(c)) = 0 THEN "update" ELSE "submit"
    /\ UNCHANGED <<qcgpjm, tasks, qcgpj_tempdir, lifeVars>>

\* the call: run(campaign, submit_order) enters __submit_jobs
run(c, order) ==
    /\ pc = "idle"
    /\ submit_order' = order
    /\ campaign' = c
    /\ status0' = [n \in DOMAIN c |-> c[n].status]
    /\ loop' = FirstLoop
    /\ submitted' = <<>>
    /\ failed' = {}
    /\ waits' = 0
    /\ err' = NoError
    /\ pc' = IF Len(list_runs(c)) = 0 THEN "wait" ELSE "submit"
    /\ UNCHANGED <<qcgpjm, tasks, qcgpj_tempdir, lifeVars>>

\* the exception leaves run after the submissions made so far are withdrawn
Raises_rollback(e) ==
    /\ pc' = "raised"
    /\ err' = e
    /\ submitted' = <<>>
    /\ UNCHANGED <<qcgpjm, tasks, qcgpj_tempdir, lifeVars, submit_order,
                   campaign, loop, failed, waits, status0>>

\* the exception is noted and run goes on to the wait
Raises_swallowed(e) ==
    /\ pc' = "wait"
    /\ err' = e
    /\ UNCHANGED <<qcgpjm, tasks, qcgpj_tempdir, lifeVars, submit_order,
                   campaign, loop, submitted, failed, waits, status0>>

\* an exception leaves run
Raises(e) ==
    /\ pc' = "raised"
    /\ err' = e
    /\ UNCHANGED <<qcgpjm, tasks, qcgpj_tempdir, lifeVars, submit_order,
                   campaign, loop, submitted, failed, waits, status0>>

CurrentRun == list_runs(campaign)[loop.i]
CurrentBuild == SubmitJobsBuilder(submit_order, loop, tasks, qcgpj_tempdir, CurrentRun)

\* self._qcgpjm.submit(Jobs().addStd(<builder>(campaign, run))) returns
submit_job ==
    /\ pc = "submit"
    /\ qcgpjm # None
    /\ SchedulerServes(scheduler)
    /\ CurrentBuild.raises = NoError
    /\ submitted' = Append(submitted, CurrentBuild.task)
    /\ loop' = SubmitJobsNext(submit_order, loop, Len(list_runs(campaign)))
    /\ pc' = IF loop'.i > Len(list_runs(campaign)) THEN "wait" ELSE "submit"
    /\ UNCHANGED <<qcgpjm, tasks, qcgpj_tempdir, lifeVars, submit_order, campaign,
                   failed, waits, status0, err>>

\* the same statement raises before anything reaches the scheduler:
\* self._qcgpjm.submit is evaluated first, then the builder
submit_job_raises ==
    /\ pc = "submit"
    /\ IF qcgpjm = None THEN Raises(NoManager)
       ELSE /\ CurrentBuild.raises # NoError
            /\ Raises(CurrentBuild.raises)

\* the scheduler client rejects the submission
submit_job_rejected ==
    /\ pc = "submit"
    /\ qcgpjm # None
    /\ CurrentBuild.raises = NoError
    /\ Raises(SchedulerError)

\* the outcomes the scheduler can report, which run never reads: no task
\* failed, the first task failed, or all of them failed
SubmittedNames == {submitted[n].name : n \in DOMAIN submitted}
TaskOutcomes ==
    {{}, SubmittedNames} \cup {{submitted[n].name} : n \in DOMAIN submitted \cap {1}}

\* wait4all returns at once where there is no handle to call it on
wait4all_without_handle ==
    /\ pc = "wait"
    /\ qcgpjm = None \/ SchedulerServes(scheduler)
    /\ \E f \in TaskOutcomes : failed' = f
    /\ waits' = waits + 1
    /\ pc' = "update"
    /\ UNCHANGED <<qcgpjm, tasks, qcgpj_tempdir, lifeVars, submit_order, campaign,
                   loop, submitted, status0, err>>

\* self._qcgpjm.wait4all() returns, whatever the outcome of the tasks
wait4all ==
    /\ pc = "wait"
    /\ qcgpjm # None
    /\ SchedulerServes(scheduler)
    /\ \E f \in TaskOutcomes : failed' = f
    /\ waits' = waits + 1
    /\ pc' = "update"
    /\ UNCHANGED <<qcgpjm, tasks, qcgpj_tempdir, lifeVars, submit_order, campaign,
                   loop, submitted, status0, err>>

\* self._qcgpjm.wait4all() raises: there is no handle to call it on, or the
\* call is made and the scheduler client raises
wait4all_raises ==
    /\ pc = "wait"
    /\ pc' = "raised"
    /\ err' = IF qcgpjm = None THEN NoManager ELSE SchedulerError
    /\ waits' = IF qcgpjm = None THEN waits ELSE waits + 1
    /\ UNCHANGED <<qcgpjm, tasks, qcgpj_tempdir, lifeVars, submit_order, campaign,
                   loop, submitted, failed, status0>>

\* the status update made already before wait4all is called
sync_state_early ==
    /\ pc \in {"wait", "update"}
    /\ campaign' = update_status(campaign)
    /\ pc' = IF pc = "update" THEN "returned" ELSE "wait"
    /\ UNCHANGED <<qcgpjm, tasks, qcgpj_tempdir, lifeVars, submit_order, loop,
                   submitted, failed, waits, status0, err>>

\* campaign.call_for_each_run(update_status, status=Status.NEW); run returns
sync_state ==
    /\ pc = "update"
    /\ campaign' = update_status(campaign)
    /\ pc' = "returned"
    /\ UNCHANGED <<qcgpjm, tasks, qcgpj_tempdir, lifeVars, submit_order, loop,
                   submitted, failed, waits, status0, err>>

\* the caller has seen the result of run and goes on
run_done ==
    /\ pc \in {"returned", "raised"}
    /\ pc' = "idle"
    /\ submit_order' = None
    /\ campaign' = <<>>
    /\ loop' = FirstLoop
    /\ submitted' = <<>>
    /\ failed' = {}
    /\ waits' = 0
    /\ status0' = <<>>
    /\ err' = NoError
    /\ UNCHANGED <<qcgpjm, tasks, qcgpj_tempdir, lifeVars>>

----------------------------------------------------------------------------

Next ==
    \/ set_manager(Manager)
    \/ create_manager(".", None, FALSE, DefaultLogLevel)
    \/ terminate_manager
    \/ terminate_done
    \/ \E task \in AllTasks : add_task(task)
    \/ \E c \in Campaigns, order \in SubmitOrder : run(c, order)
    \/ submit_job
    \/ submit_job_raises
    \/ submit_job_rejected
    \/ wait4all
    \/ wait4all_raises
    \/ sync_state
    \/ run_done

Spec == Init /\ [][Next]_vars

\* create_manager alone, over every spelling of the log levels and every
\* choice of resources and core reservation
NextLog ==
    \E level \in LogLevels, resources \in {None, "4"}, reserve_core \in BOOLEAN :
        create_manager(".", resources, reserve_core, level)

LogSpec == Init /\ [][NextLog]_vars

TypeOK ==
    /\ qcgpjm \in {None, Manager}
    /\ pc \in {"idle", "submit", "wait", "update", "returned", "raised",
              "term_returned", "term_raised"}
    /\ scheduler \in {"none", "running", "stopped"}
    /\ (qcgpjm = None) = (scheduler = "none")
    /\ err \in {NoError, MissingTaskSpec, NoManager, SchedulerError}
    /\ \A k \in DOMAIN tasks : tasks[k] \in AllTasks /\ get_name(tasks[k]) = k

----------------------------------------------------------------------------
(* Vocabulary of the properties *)

NRuns == Len(campaign)
KeyOf(n) == campaign[n].key
Names == [n \in DOMAIN submitted |-> submitted[n].name]
Deps(d) == {d.after[x] : x \in DOMAIN d.after}

\* __submit_jobs of the run call in progress has ended without an exception
SubmissionOver == pc \in {"wait", "update", "returned", "raised"} /\ loop.i > NRuns

\* s is the beginning of t
IsPrefix(s, t) == Len(s) <= Len(t) /\ \A n \in DOMAIN s : s[n] = t[n]

----------------------------------------------------------------------------
\* C1: under PHASE_ORIENTED the names submitted so far are the beginning of
\* encode_<k1> .. encode_<kN> execute_<k1> .. execute_<kN>, the keys in the
\* campaign's order (so no encode submission follows an execute submission),
\* and when the submission is over all 2N are submitted.
PhaseOrientedNames ==
    [n \in 1..(2 * NRuns) |->
        IF n <= NRuns THEN "encode_" \o KeyOf(n) ELSE "execute_" \o KeyOf(n - NRuns)]

C1_PhaseOriented ==
    submit_order = PHASE_ORIENTED =>
        /\ IsPrefix(Names, PhaseOrientedNames)
        /\ \A a, b \in DOMAIN submitted :
              (submitted[a].exec = "easyvvuq_encode"
                 /\ submitted[b].exec = "easyvvuq_execute") => a < b
        /\ SubmissionOver => Len(submitted) = 2 * NRuns

C1_Witness ==
    /\ submit_order = PHASE_ORIENTED
    /\ pc = "returned"
    /\ NRuns = 2
    /\ Len(submitted) = 4

\* C2: under RUN_ORIENTED the names submitted so far are the beginning of
\* encode_<k1> execute_<k1> .. encode_<kN> execute_<kN>, the keys in the
\* campaign's order, and when the submission is over all 2N are submitted.
RunOrientedNames ==
    [n \in 1..(2 * NRuns) |->
        IF n % 2 = 1 THEN "encode_" \o KeyOf((n + 1) \div 2)
        ELSE "execute_" \o KeyOf(n \div 2)]

C2_RunOriented ==
    submit_order = RUN_ORIENTED =>
        /\ IsPrefix(Names, RunOrientedNames)
        /\ \A n \in DOMAIN submitted :
              submitted[n].exec = IF n % 2 = 1 THEN "easyvvuq_encode"
                                  ELSE "easyvvuq_execute"
        /\ SubmissionOver => Len(submitted) = 2 * NRuns

C2_Witness ==
    /\ submit_order = RUN_ORIENTED
    /\ pc = "returned"
    /\ NRuns = 2
    /\ Len(submitted) = 4

\* C3: under RUN_ORIENTED_CONDENSED the descriptors submitted are, in the
\* campaign's order, one encode_execute_<key> per run, N when the submission
\* is over, each without dependencies; and the only Task the run looks up is
\* the one stored under TaskType.ENCODING_AND_EXECUTION: with it and a bound
\* scheduler handle no builder fails, whatever else is registered.
CondensedNames == [n \in 1..NRuns |-> "encode_execute_" \o KeyOf(n)]

C3_Condensed ==
    submit_order = RUN_ORIENTED_CONDENSED =>
        /\ IsPrefix(Names, CondensedNames)
        /\ \A n \in DOMAIN submitted : Deps(submitted[n]) = {}
        /\ SubmissionOver => Len(submitted) = NRuns
        /\ TypeKey(ENCODING_AND_EXECUTION) \in DOMAIN tasks => err # MissingTaskSpec

C3_Witness ==
    /\ submit_order = RUN_ORIENTED_CONDENSED
    /\ pc = "returned"
    /\ NRuns = 2
    /\ Len(submitted) = 2
    /\ DOMAIN tasks = {TypeKey(ENCODING_AND_EXECUTION)}

\* C4: under EXEC_ONLY the descriptors submitted are, in the campaign's
\* order, one execute_<key> per run, N when the submission is over, and none
\* of them has a dependency.
ExecOnlyNames == [n \in 1..NRuns |-> "execute_" \o KeyOf(n)]

C4_ExecOnly ==
    submit_order = EXEC_ONLY =>
        /\ IsPrefix(Names, ExecOnlyNames)
        /\ \A n \in DOMAIN submitted : Deps(submitted[n]) = {}
        /\ SubmissionOver => Len(submitted) = NRuns

C4_Witness ==
    /\ submit_order = EXEC_ONLY
    /\ pc = "returned"
    /\ NRuns = 2
    /\ Len(submitted) = 2

\* C5: under RUN_ORIENTED and PHASE_ORIENTED every submitted descriptor named
\* execute_<key> for a run key of the campaign depends on exactly
\* {encode_<key>}, and when the submission is over every run has one.
C5_ExecuteDependsOnOwnEncode ==
    submit_order \in {RUN_ORIENTED, PHASE_ORIENTED} =>
        /\ \A n \in DOMAIN submitted : \A r \in DOMAIN campaign :
              submitted[n].name = "execute_" \o KeyOf(r)
                  => Deps(submitted[n]) = {"encode_" \o KeyOf(r)}
        /\ SubmissionOver =>
              \A r \in DOMAIN campaign : \E n \in DOMAIN submitted :
                  submitted[n].name = "execute_" \o KeyOf(r)

C5_Witness ==
    /\ submit_order \in {RUN_ORIENTED, PHASE_ORIENTED}
    /\ pc = "returned"
    /\ NRuns = 2
    /\ \E n \in DOMAIN submitted : submitted[n].name = "execute_" \o KeyOf(2)

\* C6: whatever the strategy and the number of runs, no two descriptors
\* submitted during one run call have the same name.
C6_UniqueNames ==
    \A a, b \in DOMAIN submitted :
        submitted[a].name = submitted[b].name => a = b

C6_Witness ==
    /\ pc = "returned"
    /\ Len(submitted) = 2 * MaxRuns
    /\ \E n \in DOMAIN campaign : KeyOf(n) = "execute_Run_0"

\* C7: when run has returned normally, every run whose status was NEW at the
\* call has status ENCODED, whatever the strategy and whichever tasks failed.
C7_NewBecomesEncoded ==
    pc = "returned" =>
        \A n \in DOMAIN campaign :
            status0[n] = Status_NEW => campaign[n].status = Status_ENCODED

C7_Witness ==
    /\ pc = "returned"
    /\ submit_order = EXEC_ONLY
    /\ NRuns = 2
    /\ \A n \in DOMAIN campaign : status0[n] = Status_NEW
    /\ failed # {}

\* C8: the registry is keyed by kind: no two registered Tasks have the same
\* type, a Task that was registered is the one found under its type whatever
\* its name, and add_task of a Task leaves it as the one found under its type.
C8_RegistryKeyedByKind ==
    /\ [](\A k1, k2 \in DOMAIN tasks :
            get_type(tasks[k1]) = get_type(tasks[k2]) => k1 = k2)
    /\ [](\A k \in DOMAIN tasks :
            /\ ~IsNone(tasks, TypeKey(get_type(tasks[k])))
            /\ DictGet(tasks, TypeKey(get_type(tasks[k]))) = tasks[k])
    /\ [][\A task \in AllTasks :
            add_task(task) =>
                /\ ~IsNone(tasks', TypeKey(get_type(task)))
                /\ DictGet(tasks', TypeKey(get_type(task))) = task]_vars

\* the kind of Task the statement at position l of __submit_jobs looks up
NeededKind(order, l) ==
    CASE order = RUN_ORIENTED_CONDENSED -> ENCODING_AND_EXECUTION
      [] order \in {RUN_ORIENTED, PHASE_ORIENTED} ->
            IF l.j = 1 THEN ENCODING ELSE EXECUTION
      [] order = EXEC_ONLY -> EXECUTION

\* the kinds of Task a strategy needs
NeededKinds(order) ==
    CASE order = RUN_ORIENTED_CONDENSED -> {ENCODING_AND_EXECUTION}
      [] order \in {RUN_ORIENTED, PHASE_ORIENTED} -> {ENCODING, EXECUTION}
      [] order = EXEC_ONLY -> {EXECUTION}

\* the kind of Task a submitted descriptor was built from
KindOfExec(exec) ==
    CASE exec = "easyvvuq_encode" -> ENCODING
      [] exec = "easyvvuq_execute" -> EXECUTION
      [] exec = "easyvvuq_encode_execute" -> ENCODING_AND_EXECUTION

\* no Task of this kind was registered
NotRegistered(kind) == \A k \in DOMAIN tasks : get_type(tasks[k]) # kind

\* C9: when the statement of __submit_jobs that is about to run (the scheduler
\* handle being bound, so that the builder is reached) needs a kind of which no
\* Task was registered, run ends there with the error of the failed lookup and
\* nothing is submitted by that statement; no submitted descriptor was built
\* from a kind that is not registered; and a run call over at least one run
\* returns normally only if every kind its strategy needs is registered.
C9_MissingTaskSpec ==
    /\ [][(/\ pc = "submit"
           /\ qcgpjm # None
           /\ NotRegistered(NeededKind(submit_order, loop)))
          => (/\ pc' = "raised"
              /\ err' = MissingTaskSpec
              /\ submitted' = submitted)]_vars
    /\ [](\A n \in DOMAIN submitted : ~NotRegistered(KindOfExec(submitted[n].exec)))
    /\ []((pc = "returned" /\ NRuns >= 1)
            => \A kind \in NeededKinds(submit_order) : ~NotRegistered(kind))

C9_Witness ==
    /\ pc = "raised"
    /\ err = MissingTaskSpec
    /\ submit_order = RUN_ORIENTED
    /\ NotRegistered(EXECUTION)
    /\ Len(submitted) = 1

\* C10: no descriptor is submitted whose application argument, the last one
\* of an execute or encode_execute descriptor, is missing.
C10_NoMissingApplication ==
    \A n \in DOMAIN submitted :
        submitted[n].exec \in {"easyvvuq_execute", "easyvvuq_encode_execute"}
            => submitted[n].args[Len(submitted[n].args)] # None

\* the number, counted from 1, of the statement at position l in the
\* submission sequence of a strategy over n runs
SequenceIndex(order, l, n) ==
    CASE order = RUN_ORIENTED -> 2 * (l.i - 1) + l.j
      [] order = PHASE_ORIENTED -> (l.j - 1) * n + l.i
      [] order \in {RUN_ORIENTED_CONDENSED, EXEC_ONLY} -> l.i

\* run failed while __submit_jobs was at a statement of its loops
FailedInSubmission == pc = "raised" /\ loop.i <= NRuns

\* C11: a step of the submission loop that ends in an error ends run: nothing
\* is submitted by it, the error is the result of run, and the only thing
\* that follows is the return to the caller; when run has failed at the k-th
\* statement of the sequence, exactly the k-1 descriptors before it are (and
\* stay) submitted.
C11_FailureStopsSubmission ==
    /\ [][(pc = "submit" /\ err' # NoError)
            => (pc' = "raised" /\ submitted' = submitted)]_vars
    /\ [][pc = "raised" => (pc' = "idle" /\ err # NoError)]_vars
    /\ [](FailedInSubmission
            => /\ err # NoError
               /\ Len(submitted) = SequenceIndex(submit_order, loop, NRuns) - 1)

C11_Witness ==
    /\ FailedInSubmission
    /\ err = SchedulerError
    /\ submit_order = PHASE_ORIENTED
    /\ NRuns = 2
    /\ Len(submitted) = 2

\* C12: a terminate_manager call made when an earlier one has stopped the
\* scheduler raises the scheduler's error and leaves the handle, the
\* registered Tasks and the scratch directory path as they were.
C12_SecondTerminate ==
    [][(/\ pc = "idle"
        /\ pc' \in {"term_returned", "term_raised"}
        /\ scheduler = "stopped")
       => (/\ pc' = "term_raised"
           /\ err' = SchedulerError
           /\ UNCHANGED <<qcgpjm, tasks, qcgpj_tempdir>>)]_vars

C12_Witness ==
    /\ pc = "term_raised"
    /\ err = SchedulerError
    /\ scheduler = "stopped"
    /\ qcgpjm = Manager
    /\ qcgpj_tempdir = mkdtemp(".")
    /\ DOMAIN tasks # {}

----------------------------------------------------------------------------
(* Vocabulary of the log-level properties *)

\* create_manager was called
Created == manager_args # NoArgs

\* the levels handed to the two sides of the scheduler
ServiceSide == manager_args.args[2]
ClientSide == manager_args.client_conf.log_level

\* s spells word, each letter in either case
IsSpelling(s, word) ==
    /\ Len(s) = Len(word)
    /\ \A n \in DOMAIN word : s[n] = word[n] \/ s[n] = ToUpper[word[n]]

DebugWord == <<"d","e","b","u","g">>
RecognisedWords ==
    {<<"c","r","i","t","i","c","a","l">>, <<"e","r","r","o","r">>,
     <<"w","a","r","n","i","n","g">>, <<"i","n","f","o">>, DebugWord}
Recognised(s) == \E word \in RecognisedWords : IsSpelling(s, word)

\* C13: a log_level that spells DEBUG in any letter case, and a log_level
\* that spells none of the five level names, both give the debug value to the
\* service side and to the client side.
C13_DebugAndFallback ==
    (Created /\ (IsSpelling(log_level, DebugWord) \/ ~Recognised(log_level)))
        => (ServiceSide = "debug" /\ ClientSide = "debug")

C13_Witness ==
    /\ Created
    /\ log_level = <<"T","r","a","c","E">>
    /\ ServiceSide = "debug"
    /\ ClientSide = "debug"

\* C14: for a log_level that spells one of the five level names in any
\* letter case, the client side gets the same level as the service side.
C14_SameLevelOnBothSides ==
    (Created /\ Recognised(log_level)) => ClientSide = ServiceSide

----------------------------------------------------------------------------
\* a run call is in progress or has just ended
InRun == pc \in {"submit", "wait", "update", "returned", "raised"}

\* C15: a run call over zero runs on a bound handle never enters the
\* submission loop and submits nothing, whatever is registered; it calls
\* wait4all once and returns, no error arising in run itself (the one error
\* it can end with is the scheduler client's, raised by that wait4all call).
C15_NoRuns ==
    (InRun /\ NRuns = 0 /\ qcgpjm # None)
        => /\ pc # "submit"
           /\ submitted = <<>>
           /\ err \in {NoError, SchedulerError}
           /\ pc \in {"update", "returned", "raised"} => waits = 1
           /\ pc \in {"update", "returned"} => err = NoError

C15_Witness ==
    /\ pc = "returned"
    /\ submit_order = RUN_ORIENTED
    /\ NRuns = 0
    /\ qcgpjm # None
    /\ DOMAIN tasks = {}
    /\ waits = 1

\* an EXECUTION Task with an application is stored under its kind
ExecutionRegistered ==
    /\ ~IsNone(tasks, TypeKey(EXECUTION))
    /\ "application" \in DOMAIN get_params(DictGet(tasks, TypeKey(EXECUTION)))

RegisteredApplication == get_params(DictGet(tasks, TypeKey(EXECUTION))).application

\* C16: with an EXECUTION Task registered with application a, every
\* descriptor the execute builders get submitted is, for one run (key,
\* {run_dir: d}) of the campaign, named execute_<key> with the arguments
\* <<d, "easyvvuq_app", a>>; and for every run the descriptors of the two
\* builders are equal once the dependencies of the post-encode one are removed.
C16_ExecuteArguments ==
    /\ (InRun /\ ExecutionRegistered) =>
          \A n \in DOMAIN submitted :
              submitted[n].exec = "easyvvuq_execute" =>
                  \E r \in DOMAIN campaign :
                      /\ submitted[n].name = "execute_" \o campaign[r].key
                      /\ submitted[n].args =
                            <<campaign[r].run_dir, "easyvvuq_app", RegisteredApplication>>
    /\ (pc = "submit" /\ ExecutionRegistered) =>
          LET post == _get_exec_task(tasks, qcgpj_tempdir, CurrentRun)
              alone == _get_exec_only_task(tasks, qcgpj_tempdir, CurrentRun)
          IN /\ post.raises = NoError
             /\ alone.raises = NoError
             /\ [post.task EXCEPT !.after = <<>>] = alone.task
             /\ post.task.args =
                   <<CurrentRun.run_dir, "easyvvuq_app", RegisteredApplication>>

C16_Witness ==
    /\ pc = "returned"
    /\ ExecutionRegistered
    /\ submit_order = EXEC_ONLY
    /\ NRuns = 2
    /\ Len(submitted) = 2
    /\ submitted[2].args = <<RunDir(KeyOf(2)), "easyvvuq_app", "app.py">>

\* the campaign's statuses are those of the moment run was called
StatusesUntouched ==
    \A n \in DOMAIN campaign : campaign[n].status = status0[n]

\* C17: in a run call a descriptor is submitted only while wait4all has not
\* been called; wait4all is called at most once, and exactly once in a run
\* that gets to the status update and returns, after the whole submission;
\* and no status differs from what it was at the call while wait4all has not
\* been called.
C17_SubmitWaitUpdate ==
    /\ [][(submitted' # submitted /\ pc' # "idle")
            => (pc = "submit" /\ waits = 0 /\ waits' = 0)]_vars
    /\ [](waits <= 1)
    /\ [](pc \in {"submit", "wait"} => waits = 0)
    /\ [](pc \in {"update", "returned"} => (waits = 1 /\ SubmissionOver))
    /\ [](waits = 0 => StatusesUntouched)
    /\ [][campaign' # campaign => (pc = "update" \/ pc = "idle" \/ pc' = "idle")]_vars

C17_Witness ==
    /\ pc = "returned"
    /\ submit_order = RUN_ORIENTED
    /\ NRuns = 2
    /\ Len(submitted) = 4
    /\ waits = 1
    /\ status0[1] = Status_NEW
    /\ campaign[1].status = Status_ENCODED

\* the Tasks of kind OTHER a caller can build
OtherTasks == {task \in AllTasks : get_type(task) = TaskType_OTHER}

\* the registry without its Tasks of kind OTHER
WithoutOther(reg) ==
    [k \in {x \in DOMAIN reg : get_type(reg[x]) # TaskType_OTHER} |-> reg[k]]

\* C18: add_task accepts every Task of kind OTHER, and at every statement of
\* the submission loop the builder's result (the descriptor, or the error) is
\* the one it has with the Tasks of kind OTHER taken out of the registry, and
\* the one it has with any Task of kind OTHER added to it: the descriptors
\* submitted do not depend on a Task of kind OTHER being registered.
C18_OtherIsNeverConsumed ==
    /\ pc = "idle" => \A task \in OtherTasks : ENABLED add_task(task)
    /\ pc = "submit" =>
          /\ CurrentBuild = SubmitJobsBuilder(submit_order, loop, WithoutOther(tasks),
                                              qcgpj_tempdir, CurrentRun)
          /\ \A task \in OtherTasks :
                CurrentBuild = SubmitJobsBuilder(submit_order, loop,
                                                 DictSet(tasks, get_name(task), task),
                                                 qcgpj_tempdir, CurrentRun)

C18_Witness ==
    /\ pc = "returned"
    /\ submit_order = RUN_ORIENTED
    /\ ~IsNone(tasks, TypeKey(TaskType_OTHER))
    /\ NRuns = 1
    /\ Len(submitted) = 2

\* C19: every task name in the dependencies of a submitted descriptor is the
\* name of a descriptor submitted before it in the same run call.
C19_NoForwardReference ==
    \A n \in DOMAIN submitted : \A dep \in Deps(submitted[n]) :
        \E m \in 1..(n - 1) : submitted[m].name = dep

C19_Witness ==
    /\ pc = "returned"
    /\ submit_order = PHASE_ORIENTED
    /\ NRuns = 2
    /\ Len(submitted) = 4
    /\ Deps(submitted[4]) = {submitted[2].name}

\* C20: when a statement of the submission loop ends in an error, run ends
\* there: wait4all has not been called and is not called afterwards (the
\* return to the caller is all that follows), and every run has the status
\* it had when run was called.
C20_FailedSubmissionChangesNothing ==
    /\ []((InRun /\ err # NoError /\ loop.i <= NRuns)
            => (pc = "raised" /\ waits = 0 /\ StatusesUntouched))
    /\ [][(pc = "submit" /\ err' # NoError)
            => (pc' = "raised" /\ waits' = 0 /\ campaign' = campaign)]_vars
    /\ [][pc = "raised" => pc' = "idle"]_vars

C20_Witness ==
    /\ FailedInSubmission
    /\ err = MissingTaskSpec
    /\ NRuns = 2
    /\ Len(submitted) = 2
    /\ waits = 0
    /\ \A n \in DOMAIN campaign :
          status0[n] = Status_NEW /\ campaign[n].status = Status_NEW

\* no scheduler handle: neither set_manager nor create_manager was called
Unbound == qcgpjm = None

\* C21: a run call made without a scheduler handle never gets to the status
\* update and never returns normally, for every strategy and every number of
\* runs, none included: from the submission loop or from the wait its next
\* step is the error that leaves it, and all along no descriptor has been
\* submitted, wait4all has not been called and every run has the status it
\* had when run was called.
C21_UnboundRunFails ==
    /\ []((InRun /\ Unbound)
            => /\ pc \in {"submit", "wait", "raised"}
               /\ pc = "wait" => NRuns = 0
               /\ pc = "raised" => err # NoError
               /\ submitted = <<>>
               /\ waits = 0
               /\ StatusesUntouched)
    /\ [][(Unbound /\ pc \in {"submit", "wait"})
            => (pc' = "raised" /\ err' = NoManager /\ submitted' = <<>>
                /\ campaign' = campaign)]_vars

C21_Witness ==
    /\ Unbound
    /\ pc = "raised"
    /\ err = NoManager
    /\ ExecutionRegistered
    /\ submit_order = EXEC_ONLY
    /\ NRuns = 2
    /\ submitted = <<>>
    /\ \A n \in DOMAIN campaign :
          status0[n] = Status_NEW /\ campaign[n].status = Status_NEW

====
